---- MODULE Spec2Model ----
(***************************************************************************)
(* Nexus Code editor: the line diff engine (components/DiffViewer.tsx,     *)
(* DP-LCS version) with its line-number annotation pass, and the part of   *)
(* App.tsx that chooses the baseline the diff is taken against.            *)
(*                                                                         *)
(* A text is a sequence of one-character strings; "\n" is the line         *)
(* terminator.  Source arrays are 0-based: the source's O[i] is O[i + 1]   *)
(* here (operator At).                                                     *)
(***************************************************************************)
EXTENDS Integers, Sequences, FiniteSets, TLC

VARIABLES
    oldStr,      \* generateDiff parameter oldStr (DiffViewer prop oldContent)
    newStr,      \* generateDiff parameter newStr (DiffViewer prop newContent)
    pc,          \* position in generateDiff / the DiffViewer render
    oldLines,    \* oldStr.split('\n')
    newLines,    \* newStr.split('\n')
    dp,          \* the LCS table, dp[r][c] for r in 0..m, c in 0..n
    fi,          \* outer counter of the fill loop (source: i, line 21)
    fj,          \* inner counter of the fill loop (source: j, line 22)
    i,           \* walk index into oldLines (line 32)
    j,           \* walk index into newLines (line 32)
    diff,        \* the array generateDiff returns
    early,       \* TRUE when generateDiff returned at line 16
    oldLineNum,  \* DiffViewer counter (line 69)
    newLineNum,  \* DiffViewer counter (line 70)
    rendered,    \* the rows the render has produced so far
    fileSystem,       \* useFileSystem: the working tree
    savedFileSystem,  \* useFileSystem: the saved tree
    diffFile,         \* App: the file whose diff is shown, or NoNode
    openFiles,        \* useOpenFiles: the open tabs (file snapshots)
    activeFileId,     \* useOpenFiles: the active tab, or NoId
    nextId,           \* number of ids String(Date.now()) has produced
    ops,              \* number of handler calls made so far
    lastCall,         \* the latest handler call: its name, arguments, return value
    textCall,         \* utils/editorText.ts: the function called and its arguments
    textResult,       \* utils/editorText.ts: what the call returned
    commandHistory,   \* useTerminal: commandHistory.current
    historyIndex,     \* useTerminal: historyIndex.current
    history,          \* useTerminal: the lines the terminal shows
    navTrace          \* navigateHistory calls since the last command ran, with returns

diffVars == <<oldStr, newStr, pc, oldLines, newLines, dp, fi, fj, i, j, diff,
              early, oldLineNum, newLineNum, rendered>>

appVars == <<fileSystem, savedFileSystem, diffFile, openFiles, activeFileId,
             nextId, ops, lastCall>>

textVars == <<textCall, textResult>>

termVars == <<commandHistory, historyIndex, history, navTrace>>

vars == <<diffVars, appVars, textVars, termVars>>

-----------------------------------------------------------------------------
(* Bounds and input sets *)

MaxLen == 3

NL == "\n"

Letters == {"a", "b"}

Chars == Letters \cup {NL}

Texts == UNION {[1..n -> Chars] : n \in 0..MaxLen}

\* The two end-to-end scenarios of the specification, character by character.
ScenarioOld ==
    <<"o","n","e",NL,"t","w","o",NL,"t","h","r","e","e">>

ScenarioNew ==
    <<"o","n","e",NL,"t","w","o",NL,"T","H","R","E","E",NL,"f","o","u","r">>

ScenarioXY == <<"x", NL, "y">>

Inputs ==
    (Texts \X Texts) \cup {<<ScenarioOld, ScenarioNew>>, <<<<>>, ScenarioXY>>}

-----------------------------------------------------------------------------
(* Helpers *)

\* currentOldLine / currentNewLine start as null; line numbers are >= 1.
Null == 0

\* 0-based array read.
At(arr, k) == arr[k + 1]

Max(x, y) == IF x >= y THEN x ELSE y

Min(x, y) == IF x <= y THEN x ELSE y

RECURSIVE SplitFrom(_, _, _)
SplitFrom(s, k, cur) ==
    IF k > Len(s) THEN <<cur>>
    ELSE IF s[k] = NL THEN <<cur>> \o SplitFrom(s, k + 1, <<>>)
    ELSE SplitFrom(s, k + 1, Append(cur, s[k]))

\* String.prototype.split('\n'): always at least one line; "" gives [""].
SplitLines(s) == SplitFrom(s, 1, <<>>)

\* The mutant of IsEmptyBaseline: the length test on oldStr is dropped and
\* only the first line is looked at.
IsEmptyBaselineFirstLineOnly(lines, str) == lines[1] = <<>>

\* The condition of the up-front branch (line 15).
IsEmptyBaseline(lines, str) ==
    Len(lines) = 1 /\ lines[1] = <<>> /\ Len(str) = 0

\* newLines.map(line => ({type: 'add', content: line})) (line 16).
AllAdded(lines) == [k \in 1..Len(lines) |-> [type |-> "add", content |-> lines[k]]]

\* The mutant of ZeroTable: the last row and column are not part of the table
\* that is initialised to 0 but hold 1.
ZeroTableOnesBorder(m, n) ==
    [r \in 0..m |-> [c \in 0..n |-> IF r = m \/ c = n THEN 1 ELSE 0]]

\* Array(m + 1).fill(null).map(() => Array(n + 1).fill(0)) (line 19).
ZeroTable(m, n) == [r \in 0..m |-> [c \in 0..n |-> 0]]

InTable(t, r, c) == r \in DOMAIN t /\ c \in DOMAIN t[r]

\* String.prototype.toLowerCase on one character of the input alphabet.
LowerChar(ch) ==
    CASE ch = "T" -> "t"
      [] ch = "H" -> "h"
      [] ch = "R" -> "r"
      [] ch = "E" -> "e"
      [] OTHER -> ch

LowerCharOf(a, k) == LowerChar(a[k])

\* The mutant of LineEq: the two lines are compared ignoring case.
LineEqIgnoreCase(a, b) ==
    [k \in 1..Len(a) |-> LowerCharOf(a, k)] = [k \in 1..Len(b) |-> LowerCharOf(b, k)]

\* oldLines[i] === newLines[j]: exact string equality (lines 23, 34).
LineEq(a, b) == a = b

\* The mutant of DpCellValue: Math.min in place of Math.max.
DpCellValueMin(O, N, t, r, c) ==
    IF LineEq(At(O, r), At(N, c))
    THEN 1 + t[r + 1][c + 1]
    ELSE Min(t[r + 1][c], t[r][c + 1])

\* The value stored in dp[r][c] by the fill loop (lines 23-27).
DpCellValue(O, N, t, r, c) ==
    IF LineEq(At(O, r), At(N, c))
    THEN 1 + t[r + 1][c + 1]
    ELSE Max(t[r + 1][c], t[r][c + 1])

\* The table cells one fill iteration reads.
FillReads(r, c) == {<<r + 1, c + 1>>, <<r + 1, c>>, <<r, c + 1>>}

\* The mutant of WalkKind: strict comparison, so a tie consumes the new line.
WalkKindStrict(O, N, t, r, c) ==
    IF LineEq(At(O, r), At(N, c)) THEN "common"
    ELSE IF t[r + 1][c] > t[r][c + 1] THEN "del"
    ELSE "add"

\* The branch one iteration of the walk loop takes (lines 34, 37, 40).
WalkKind(O, N, t, r, c) ==
    IF LineEq(At(O, r), At(N, c)) THEN "common"
    ELSE IF t[r + 1][c] >= t[r][c + 1] THEN "del"
    ELSE "add"

\* The mutant of DiffEntry: a deleted entry carries the new line's text.
DiffEntryNewText(kind, O, N, r, c) ==
    [type |-> kind, content |-> IF kind = "common" THEN At(O, r) ELSE At(N, c)]

\* The entry pushed by the branch (lines 35, 38, 41).
DiffEntry(kind, O, N, r, c) ==
    [type |-> kind, content |-> IF kind = "add" THEN At(N, c) ELSE At(O, r)]

\* The mutant of WalkAdvance: the 'add' branch forgets j++.
WalkAdvanceNoJ(kind, r, c) ==
    IF kind = "common" THEN <<r + 1, c + 1>>
    ELSE IF kind = "del" THEN <<r + 1, c>>
    ELSE <<r, c>>

\* The increments of the branch (lines 36, 39, 42).
WalkAdvance(kind, r, c) ==
    IF kind = "common" THEN <<r + 1, c + 1>>
    ELSE IF kind = "del" THEN <<r + 1, c>>
    ELSE <<r, c + 1>>

\* The mutant of RenderRow: a common row advances only the old counter.
RenderRowCommonOldOnly(line, ocnt, ncnt) ==
    IF line.type = "add"
    THEN [type |-> "add", content |-> line.content, oldLine |-> Null,
          newLine |-> ncnt, oldNext |-> ocnt, newNext |-> ncnt + 1]
    ELSE IF line.type = "del"
    THEN [type |-> "del", content |-> line.content, oldLine |-> ocnt,
          newLine |-> Null, oldNext |-> ocnt + 1, newNext |-> ncnt]
    ELSE [type |-> "common", content |-> line.content, oldLine |-> ocnt,
          newLine |-> ncnt, oldNext |-> ocnt + 1, newNext |-> ncnt]

\* The mutant of RenderRow: an added row also reports the old counter.
RenderRowAddShowsOld(line, ocnt, ncnt) ==
    IF line.type = "add"
    THEN [type |-> "add", content |-> line.content, oldLine |-> ocnt,
          newLine |-> ncnt, oldNext |-> ocnt, newNext |-> ncnt + 1]
    ELSE IF line.type = "del"
    THEN [type |-> "del", content |-> line.content, oldLine |-> ocnt,
          newLine |-> Null, oldNext |-> ocnt + 1, newNext |-> ncnt]
    ELSE [type |-> "common", content |-> line.content, oldLine |-> ocnt,
          newLine |-> ncnt, oldNext |-> ocnt + 1, newNext |-> ncnt + 1]

\* One call of the diffs.map callback (lines 80-106) with the counters
\* at ocnt and ncnt: the numbers the row reports and the counters afterwards.
RenderRow(line, ocnt, ncnt) ==
    IF line.type = "add"
    THEN [type |-> "add", content |-> line.content, oldLine |-> Null,
          newLine |-> ncnt, oldNext |-> ocnt, newNext |-> ncnt + 1]
    ELSE IF line.type = "del"
    THEN [type |-> "del", content |-> line.content, oldLine |-> ocnt,
          newLine |-> Null, oldNext |-> ocnt + 1, newNext |-> ncnt]
    ELSE [type |-> "common", content |-> line.content, oldLine |-> ocnt,
          newLine |-> ncnt, oldNext |-> ocnt + 1, newNext |-> ncnt + 1]

Row(r) == [type |-> r.type, content |-> r.content,
           oldLine |-> r.oldLine, newLine |-> r.newLine]

-----------------------------------------------------------------------------
(* generateDiff, one action per step *)

m == Len(oldLines)

n == Len(newLines)

\* Lines 12-19: split both texts, take the up-front branch or set up the table.
Start ==
    /\ pc = "start"
    /\ oldLines' = SplitLines(oldStr)
    /\ newLines' = SplitLines(newStr)
    /\ IF IsEmptyBaseline(oldLines', oldStr)
       THEN /\ diff' = AllAdded(newLines')
            /\ early' = TRUE
            /\ pc' = "render"
            /\ UNCHANGED <<dp, fi, fj>>
       ELSE /\ dp' = ZeroTable(Len(oldLines'), Len(newLines'))
            /\ fi' = Len(oldLines') - 1
            /\ fj' = Len(newLines') - 1
            /\ pc' = "fill"
            /\ UNCHANGED <<diff, early>>
    /\ UNCHANGED <<oldStr, newStr, i, j, oldLineNum, newLineNum, rendered>>
    /\ UNCHANGED <<appVars, textVars, termVars>>

\* Lines 21-29: one iteration of the inner fill loop, then the loop tests.
\* A read outside the table is a failure of the function.
FillCell ==
    /\ pc = "fill"
    /\ IF \A rc \in FillReads(fi, fj) : InTable(dp, rc[1], rc[2])
       THEN /\ dp' = [dp EXCEPT ![fi][fj] = DpCellValue(oldLines, newLines, dp, fi, fj)]
            /\ IF fj > 0
               THEN fi' = fi /\ fj' = fj - 1 /\ pc' = "fill"
               ELSE IF fi > 0
               THEN fi' = fi - 1 /\ fj' = n - 1 /\ pc' = "fill"
               ELSE fi' = fi - 1 /\ fj' = fj - 1 /\ pc' = "walk"
       ELSE pc' = "failed" /\ UNCHANGED <<dp, fi, fj>>
    /\ UNCHANGED <<oldStr, newStr, oldLines, newLines, i, j, diff, early,
                   oldLineNum, newLineNum, rendered>>
    /\ UNCHANGED <<appVars, textVars, termVars>>

\* Lines 33-44: one iteration of the walk loop.
WalkStep ==
    /\ pc = "walk"
    /\ i < m /\ j < n
    /\ IF InTable(dp, i + 1, j) /\ InTable(dp, i, j + 1)
       THEN LET kind == WalkKind(oldLines, newLines, dp, i, j)
                adv  == WalkAdvance(kind, i, j)
            IN  /\ diff' = Append(diff, DiffEntry(kind, oldLines, newLines, i, j))
                /\ i' = adv[1]
                /\ j' = adv[2]
                /\ pc' = "walk"
       ELSE pc' = "failed" /\ UNCHANGED <<i, j, diff>>
    /\ UNCHANGED <<oldStr, newStr, oldLines, newLines, dp, fi, fj, early,
                   oldLineNum, newLineNum, rendered>>
    /\ UNCHANGED <<appVars, textVars, termVars>>

\* Line 33: the walk loop's test fails.
WalkExit ==
    /\ pc = "walk"
    /\ ~(i < m /\ j < n)
    /\ pc' = "flushDel"
    /\ UNCHANGED <<oldStr, newStr, oldLines, newLines, dp, fi, fj, i, j, diff,
                   early, oldLineNum, newLineNum, rendered>>
    /\ UNCHANGED <<appVars, textVars, termVars>>

\* Lines 46-49: flush the remaining old lines as deleted.
FlushDel ==
    /\ pc = "flushDel"
    /\ IF i < m
       THEN /\ diff' = Append(diff, [type |-> "del", content |-> At(oldLines, i)])
            /\ i' = i + 1
            /\ pc' = "flushDel"
       ELSE pc' = "flushAdd" /\ UNCHANGED <<i, diff>>
    /\ UNCHANGED <<oldStr, newStr, oldLines, newLines, dp, fi, fj, j, early,
                   oldLineNum, newLineNum, rendered>>
    /\ UNCHANGED <<appVars, textVars, termVars>>

\* Lines 50-55: flush the remaining new lines as added, then return.
FlushAdd ==
    /\ pc = "flushAdd"
    /\ IF j < n
       THEN /\ diff' = Append(diff, [type |-> "add", content |-> At(newLines, j)])
            /\ j' = j + 1
            /\ pc' = "flushAdd"
       ELSE pc' = "render" /\ UNCHANGED <<j, diff>>
    /\ UNCHANGED <<oldStr, newStr, oldLines, newLines, dp, fi, fj, i, early,
                   oldLineNum, newLineNum, rendered>>
    /\ UNCHANGED <<appVars, textVars, termVars>>

\* DiffViewer lines 80-106: the map callback for the next element of diffs.
RenderLine ==
    /\ pc = "render"
    /\ IF Len(rendered) < Len(diff)
       THEN LET r == RenderRow(diff[Len(rendered) + 1], oldLineNum, newLineNum)
            IN  /\ rendered' = Append(rendered, Row(r))
                /\ oldLineNum' = r.oldNext
                /\ newLineNum' = r.newNext
                /\ pc' = "render"
       ELSE pc' = "done" /\ UNCHANGED <<oldLineNum, newLineNum, rendered>>
    /\ UNCHANGED <<oldStr, newStr, oldLines, newLines, dp, fi, fj, i, j, diff,
                   early>>
    /\ UNCHANGED <<appVars, textVars, termVars>>

DiffStep ==
    \/ Start
    \/ FillCell
    \/ WalkStep
    \/ WalkExit
    \/ FlushDel
    \/ FlushAdd
    \/ RenderLine

\* The state of a DiffViewer about to compute its diff of (o, nw).
DiffFresh(o, nw) ==
    /\ oldStr = o
    /\ newStr = nw
    /\ pc = "start"
    /\ oldLines = <<>>
    /\ newLines = <<>>
    /\ dp = ZeroTable(0, 0)
    /\ fi = 0
    /\ fj = 0
    /\ i = 0
    /\ j = 0
    /\ diff = <<>>
    /\ early = FALSE
    /\ oldLineNum = 1
    /\ newLineNum = 1
    /\ rendered = <<>>

\* No DiffViewer is shown.
DiffIdle ==
    /\ oldStr = <<>>
    /\ newStr = <<>>
    /\ pc = "idle"
    /\ oldLines = <<>>
    /\ newLines = <<>>
    /\ dp = ZeroTable(0, 0)
    /\ fi = 0
    /\ fj = 0
    /\ i = 0
    /\ j = 0
    /\ diff = <<>>
    /\ early = FALSE
    /\ oldLineNum = 1
    /\ newLineNum = 1
    /\ rendered = <<>>

\* The values the diff variables take when a DiffViewer is (re)rendered with
\* props (o, nw) (pcv = "start"), or when none is shown (pcv = "idle").
DiffReset(pcv, o, nw) ==
    /\ oldStr' = o
    /\ newStr' = nw
    /\ pc' = pcv
    /\ oldLines' = <<>>
    /\ newLines' = <<>>
    /\ dp' = ZeroTable(0, 0)
    /\ fi' = 0
    /\ fj' = 0
    /\ i' = 0
    /\ j' = 0
    /\ diff' = <<>>
    /\ early' = FALSE
    /\ oldLineNum' = 1
    /\ newLineNum' = 1
    /\ rendered' = <<>>

-----------------------------------------------------------------------------
(* The virtual file system: data.ts and hooks/useFileSystem.ts *)

MaxOps == 3

MaxNew == 1

\* null / undefined for a node, an id, a git status.
NoNode == [type |-> "none"]

NoId == "null"

NoStatus == "none"

FileNode(id, name, language, content, gitStatus, isDirty) ==
    [id |-> id, type |-> "file", name |-> name, language |-> language,
     content |-> content, gitStatus |-> gitStatus, isDirty |-> isDirty]

FolderNode(id, name, children) ==
    [id |-> id, type |-> "folder", name |-> name, children |-> children]

TypescriptLang == <<"t","y","p","e","s","c","r","i","p","t">>

\* initialFileSystem.  Every line of a file's content is abbreviated to one
\* character (the line structure, blank lines included, is the source's);
\* an absent gitStatus is NoStatus and an absent isDirty is FALSE (falsy).
initialFileSystem ==
    << FolderNode("1", <<"s","r","c">>,
         << FolderNode("2", <<"c","o","m","p","o","n","e","n","t","s">>,
              << FileNode("3", <<"B","u","t","t","o","n",".","t","s","x">>,
                          TypescriptLang, <<"i",NL,NL,"c",NL,NL,"e">>, "A", FALSE) >>),
            FileNode("4", <<"A","p","p",".","t","s","x">>, TypescriptLang,
                     <<"i",NL,NL,"f",NL,"r",NL,"}">>, "M", FALSE),
            FileNode("5", <<"s","t","y","l","e","s",".","c","s","s">>, <<"c","s","s">>,
                     <<"b",NL,"f",NL,"g",NL,"}">>, NoStatus, FALSE) >>),
       FolderNode("6", <<"p","u","b","l","i","c">>,
         << FileNode("7", <<"i","n","d","e","x",".","h","t","m","l">>, <<"h","t","m","l">>,
                     <<"D",NL,"h",NL,"y",NL,"1",NL,"Y",NL,"H">>, "U", FALSE) >>),
       FileNode("8", <<"p","a","c","k","a","g","e",".","j","s","o","n">>, <<"j","s","o","n">>,
                <<"{",NL,"n",NL,"v",NL,"p",NL,"}">>, NoStatus, FALSE),
       FileNode("9", <<"R","E","A","D","M","E",".","m","d">>, <<"m","a","r","k","d","o","w","n">>,
                <<"#",NL,NL,"A">>, NoStatus, FALSE) >>

\* The contents an edit may write and the names a new item may be given.
EditTexts == {<<>>, <<"a", NL, "b">>}

NewNames == {<<"n", ".", "t", "s">>, <<" ">>, <<".", ".">>, <<"a", "/", "b">>}

\* String(Date.now()) for the k-th node created.
FreshId(k) == IF k = 0 THEN "n1" ELSE IF k = 1 THEN "n2" ELSE "n3"

RECURSIVE findNodeRecursive(_, _)
findNodeRecursive(nodes, id) ==
    IF nodes = <<>> THEN NoNode
    ELSE LET node == Head(nodes) IN
         IF node.id = id THEN node
         ELSE IF node.type = "folder"
              THEN LET found == findNodeRecursive(node.children, id) IN
                   IF found # NoNode THEN found
                   ELSE findNodeRecursive(Tail(nodes), id)
              ELSE findNodeRecursive(Tail(nodes), id)

findFileByIdRecursive(nodes, id) ==
    LET node == findNodeRecursive(nodes, id) IN
    IF node # NoNode /\ node.type = "file" THEN node ELSE NoNode

\* Every node of a tree: the values an updater callback can be handed.
RECURSIVE AllNodes(_)
AllNodes(nodes) ==
    IF nodes = <<>> THEN {}
    ELSE LET node == Head(nodes) IN
         {node} \cup (IF node.type = "folder" THEN AllNodes(node.children) ELSE {})
                \cup AllNodes(Tail(nodes))

\* updateNodeInTree (lines 22-32); updateFn is a function over the nodes.
RECURSIVE updateNodeInTree(_, _, _)
updateNodeInTree(nodes, nodeId, updateFn) ==
    [k \in 1..Len(nodes) |->
        IF nodes[k].id = nodeId THEN updateFn[nodes[k]]
        ELSE IF nodes[k].type = "folder"
        THEN [nodes[k] EXCEPT !.children = updateNodeInTree(@, nodeId, updateFn)]
        ELSE nodes[k]]

RECURSIVE addNodeToFolder(_, _, _)
addNodeToFolder(nodes, parentId, newNode) ==
    [k \in 1..Len(nodes) |->
        IF nodes[k].id = parentId /\ nodes[k].type = "folder"
        THEN [nodes[k] EXCEPT !.children = Append(@, newNode)]
        ELSE IF nodes[k].type = "folder"
        THEN [nodes[k] EXCEPT !.children = addNodeToFolder(@, parentId, newNode)]
        ELSE nodes[k]]

\* Every file of a tree, in traversal order.
RECURSIVE AllFiles(_)
AllFiles(nodes) ==
    IF nodes = <<>> THEN <<>>
    ELSE (IF Head(nodes).type = "file" THEN <<Head(nodes)>>
          ELSE AllFiles(Head(nodes).children)) \o AllFiles(Tail(nodes))

RECURSIVE AllFolderIds(_)
AllFolderIds(nodes) ==
    IF nodes = <<>> THEN {}
    ELSE (IF Head(nodes).type = "folder"
          THEN {Head(nodes).id} \cup AllFolderIds(Head(nodes).children)
          ELSE {}) \cup AllFolderIds(Tail(nodes))

Range(seq) == {seq[k] : k \in 1..Len(seq)}

Whitespace == {" ", "\t", NL}

\* The mutant of validateFileName: "." and ".." pass.
validateFileNameNoDots(name) ==
    /\ \E k \in 1..Len(name) : name[k] \notin Whitespace
    /\ \A k \in 1..Len(name) : name[k] # "/" /\ name[k] # "\\"

\* validateFileName (lines 46-51): !name.trim(), the slashes, "." and "..".
validateFileName(name) ==
    /\ \E k \in 1..Len(name) : name[k] \notin Whitespace
    /\ \A k \in 1..Len(name) : name[k] # "/" /\ name[k] # "\\"
    /\ name # <<".">>
    /\ name # <<".", ".">>

\* name.split('.').pop(): the part of the name after its last dot.
RECURSIVE LastSegment(_)
LastSegment(name) ==
    IF name = <<>> THEN <<>>
    ELSE IF \E k \in 1..Len(name) : name[k] = "."
    THEN LastSegment(SubSeq(name, (CHOOSE k \in 1..Len(name) : name[k] = ".") + 1, Len(name)))
    ELSE name

\* The updater of handleRenameNode (lines 157-166).
renameUpdater(node, newName) ==
    IF node.type = "file"
    THEN [node EXCEPT !.name = newName,
                      !.gitStatus = IF @ = "A" THEN "A" ELSE "M",
                      !.isDirty = TRUE]
    ELSE [node EXCEPT !.name = newName]

\* collectIds (lines 183-188): the ids of the files below a folder's children.
RECURSIVE collectIds(_)
collectIds(children) ==
    IF children = <<>> THEN <<>>
    ELSE (IF Head(children).type = "file" THEN <<Head(children).id>>
          ELSE collectIds(Head(children).children)) \o collectIds(Tail(children))

\* deleteRecursive (lines 176-196): the tree without the node idToDelete.
RECURSIVE deleteRecursive(_, _)
deleteRecursive(nodes, idToDelete) ==
    IF nodes = <<>> THEN <<>>
    ELSE LET node == Head(nodes) IN
         IF node.id = idToDelete THEN deleteRecursive(Tail(nodes), idToDelete)
         ELSE IF node.type = "folder"
         THEN <<[node EXCEPT !.children = deleteRecursive(@, idToDelete)]>>
              \o deleteRecursive(Tail(nodes), idToDelete)
         ELSE <<node>> \o deleteRecursive(Tail(nodes), idToDelete)

\* deletedFileIds as deleteRecursive fills it (lines 175-190).
RECURSIVE deletedFileIds(_, _)
deletedFileIds(nodes, idToDelete) ==
    IF nodes = <<>> THEN <<>>
    ELSE LET node == Head(nodes) IN
         (IF node.id = idToDelete
          THEN (IF node.type = "file" THEN <<node.id>> ELSE collectIds(node.children))
          ELSE IF node.type = "folder"
          THEN deletedFileIds(node.children, idToDelete)
          ELSE <<>>) \o deletedFileIds(Tail(nodes), idToDelete)

\* `${node.name} (copy)`
CopyName(name) == name \o <<" ", "(", "c", "o", "p", "y", ")">>

\* The node duplicateNode builds (lines 207-220); a folder's copy shares the
\* children, ids included.
duplicateOf(node, id) ==
    IF node.type = "file"
    THEN [node EXCEPT !.id = id, !.name = CopyName(@), !.gitStatus = "A",
                      !.isDirty = TRUE]
    ELSE [node EXCEPT !.id = id, !.name = CopyName(@)]

\* findParent (lines 223-234).
RECURSIVE findParent(_, _)
findParent(nodes, targetId) ==
    IF nodes = <<>> THEN NoId
    ELSE LET nd == Head(nodes) IN
         IF nd.type = "folder"
            /\ \E k \in 1..Len(nd.children) : nd.children[k].id = targetId
         THEN nd.id
         ELSE IF nd.type = "folder"
         THEN LET found == findParent(nd.children, targetId) IN
              IF found # NoId THEN found ELSE findParent(Tail(nodes), targetId)
         ELSE findParent(Tail(nodes), targetId)

\* removeFromCurrent (lines 251-258).
RECURSIVE removeFromCurrent(_, _)
removeFromCurrent(nodes, idToRemove) ==
    IF nodes = <<>> THEN <<>>
    ELSE LET nd == Head(nodes) IN
         IF nd.id = idToRemove THEN removeFromCurrent(Tail(nodes), idToRemove)
         ELSE IF nd.type = "folder"
         THEN <<[nd EXCEPT !.children = removeFromCurrent(@, idToRemove)]>>
              \o removeFromCurrent(Tail(nodes), idToRemove)
         ELSE <<nd>> \o removeFromCurrent(Tail(nodes), idToRemove)

-----------------------------------------------------------------------------
(* components/GitView.tsx: the list of changed files *)

\* savedNodes.find(n => n.id === id)
FindById(nodes, id) ==
    IF \E k \in 1..Len(nodes) : nodes[k].id = id
    THEN nodes[CHOOSE k \in 1..Len(nodes) :
                   /\ nodes[k].id = id
                   /\ \A h \in 1..(k - 1) : nodes[h].id # id]
    ELSE NoNode

\* collectFiles (lines 40-50): the files below a new folder, as added.
RECURSIVE collectFiles(_)
collectFiles(nodes) ==
    IF nodes = <<>> THEN <<>>
    ELSE (IF Head(nodes).type = "file"
          THEN <<[Head(nodes) EXCEPT !.gitStatus = "A"]>>
          ELSE collectFiles(Head(nodes).children)) \o collectFiles(Tail(nodes))

\* The mutant of IsModified: a file with a git status counts as changed.
IsModifiedByGitStatus(workingNode, savedNode) ==
    workingNode.content # savedNode.content \/ workingNode.gitStatus # NoStatus

\* The test of line 30.
IsModified(workingNode, savedNode) ==
    workingNode.content # savedNode.content \/ workingNode.isDirty

\* getChangedFiles (lines 18-58): traverse(fileSystem, savedFileSystem).
RECURSIVE getChangedFiles(_, _)
getChangedFiles(workingNodes, savedNodes) ==
    IF workingNodes = <<>> THEN <<>>
    ELSE LET workingNode == Head(workingNodes)
             savedNode == FindById(savedNodes, workingNode.id)
         IN  (IF workingNode.type = "file"
              THEN IF savedNode = NoNode
                   THEN <<[workingNode EXCEPT !.gitStatus = "A"]>>
                   ELSE IF IsModified(workingNode, savedNode)
                   THEN <<[workingNode EXCEPT !.gitStatus = "M"]>>
                   ELSE <<>>
              ELSE IF savedNode # NoNode
                   THEN getChangedFiles(workingNode.children, savedNode.children)
                   ELSE collectFiles(workingNode.children))
             \o getChangedFiles(Tail(workingNodes), savedNodes)

-----------------------------------------------------------------------------
(* hooks/useOpenFiles.ts *)

\* {...f, ...updates}
Merge(f, updates) ==
    [fld \in DOMAIN f \cup DOMAIN updates |->
        IF fld \in DOMAIN updates THEN updates[fld] ELSE f[fld]]

\* openFile (lines 28-33): the tabs afterwards (the active tab becomes file.id).
openFile(files, file) ==
    IF \E k \in 1..Len(files) : files[k].id = file.id
    THEN files
    ELSE Append(files, file)

\* updateFile (lines 52-60).
updateFile(files, fileId, updates) ==
    [k \in 1..Len(files) |->
        IF files[k].id = fileId THEN Merge(files[k], updates) ELSE files[k]]

\* isFileOpen
isFileOpen(files, fileId) == \E k \in 1..Len(files) : files[k].id = fileId

\* closeFile (lines 35-50): the tab that is active afterwards.
closeFileActive(files, active, fileId) ==
    IF ~isFileOpen(files, fileId) THEN active
    ELSE LET fileIndex == (CHOOSE k \in 1..Len(files) :
                              /\ files[k].id = fileId
                              /\ \A h \in 1..(k - 1) : files[h].id # fileId) - 1
         IN  IF active # fileId THEN active
             ELSE IF Len(files) > 1
             THEN (IF fileIndex > 0 THEN At(files, fileIndex - 1).id
                   ELSE At(files, 1).id)
             ELSE NoId

\* prev.filter(f => f.id !== fileId), for every fileId of ids.
RECURSIVE closeFileTabs(_, _)
closeFileTabs(files, ids) ==
    IF files = <<>> THEN <<>>
    ELSE (IF Head(files).id \in ids THEN <<>> ELSE <<Head(files)>>)
         \o closeFileTabs(Tail(files), ids)

-----------------------------------------------------------------------------
(* App.tsx: the baseline of the diff view *)

\* The mutant of originalFileForDiff: the test for status 'U' is missing.
originalFileForDiffNoU(df, saved) ==
    IF df = NoNode \/ df.gitStatus = "A" THEN NoNode
    ELSE findFileByIdRecursive(saved, df.id)

\* originalFileForDiff (lines 302-305).
originalFileForDiff(df, saved) ==
    IF df = NoNode \/ df.gitStatus = "A" \/ df.gitStatus = "U" THEN NoNode
    ELSE findFileByIdRecursive(saved, df.id)

\* The oldContent prop (line 418):
\* diffFile.gitStatus === 'A' ? '' : originalFileForDiff?.content ?? ''.
oldContentProp(df, saved) ==
    IF df.gitStatus = "A" THEN <<>>
    ELSE IF originalFileForDiff(df, saved) = NoNode THEN <<>>
    ELSE originalFileForDiff(df, saved).content

\* The render that follows a state update (lines 415-429): with a diffFile
\* the DiffViewer is rendered with its props, otherwise no diff is shown.
RenderApp(df, saved) ==
    IF df = NoNode
    THEN DiffReset("idle", <<>>, <<>>)
    ELSE DiffReset("start", oldContentProp(df, saved), df.content)

\* A handler runs between renders and, in this model, at most MaxOps times.
HandlerReady == pc \in {"idle", "done"} /\ ops < MaxOps

-----------------------------------------------------------------------------
(* App.tsx and hooks/useFileSystem.ts: the handlers *)

\* handleOpenFile (lines 227-230): a click on a file of the explorer.
handleOpenFile ==
    /\ HandlerReady
    /\ \E file \in Range(AllFiles(fileSystem)) :
          /\ diffFile' = NoNode
          /\ openFiles' = openFile(openFiles, file)
          /\ activeFileId' = file.id
    /\ lastCall' = [fn |-> "handleOpenFile"]
    /\ ops' = ops + 1
    /\ UNCHANGED <<textVars, termVars>>
    /\ UNCHANGED <<fileSystem, savedFileSystem, nextId>>
    /\ RenderApp(diffFile', savedFileSystem')

\* handleShowDiff (lines 297-300) for a file of the working tree.
handleShowDiff ==
    /\ HandlerReady
    /\ \E file \in Range(AllFiles(fileSystem)) :
          /\ activeFileId' = NoId
          /\ diffFile' = file
    /\ lastCall' = [fn |-> "handleShowDiff"]
    /\ ops' = ops + 1
    /\ UNCHANGED <<textVars, termVars>>
    /\ UNCHANGED <<fileSystem, savedFileSystem, openFiles, nextId>>
    /\ RenderApp(diffFile', savedFileSystem')

\* The updater of handleCodeChange (lines 75-85).
codeChangeUpdater(node, fileId, newContent) ==
    IF node.id = fileId /\ node.type = "file"
    THEN [node EXCEPT !.content = newContent,
                      !.gitStatus = IF @ = "A" THEN "A" ELSE "M",
                      !.isDirty = TRUE]
    ELSE node

\* handleCodeChangeLocal (lines 240-243) with handleCodeChange (lines 74-88).
handleCodeChangeLocal ==
    /\ HandlerReady
    /\ \E file \in Range(AllFiles(fileSystem)), newContent \in EditTexts :
          LET updater == [node \in AllNodes(fileSystem) |->
                              codeChangeUpdater(node, file.id, newContent)]
          IN  /\ fileSystem' = updateNodeInTree(fileSystem, file.id, updater)
              /\ openFiles' = updateFile(openFiles, file.id,
                                  [content |-> newContent, isDirty |-> TRUE])
              /\ lastCall' = [fn |-> "handleCodeChange", fileId |-> file.id]
    /\ ops' = ops + 1
    /\ UNCHANGED <<textVars, termVars>>
    /\ UNCHANGED <<savedFileSystem, diffFile, activeFileId, nextId>>
    /\ RenderApp(diffFile', savedFileSystem')

\* The updaters of handleSaveFile (lines 94-99 and 103-108).
savedStateUpdater(node, fileId, content) ==
    IF node.id = fileId /\ node.type = "file"
    THEN [node EXCEPT !.content = content]
    ELSE node

workingStateUpdater(node, fileId) ==
    IF node.id = fileId /\ node.type = "file"
    THEN [node EXCEPT !.isDirty = FALSE]
    ELSE node

\* Ctrl+S (lines 207-212) with handleSaveFile (lines 90-112).
handleSaveFile ==
    /\ HandlerReady
    /\ activeFileId # NoId
    /\ LET fileToSave == findFileByIdRecursive(fileSystem, activeFileId)
           savedUpd == [node \in AllNodes(savedFileSystem) |->
                          savedStateUpdater(node, activeFileId, fileToSave.content)]
           workUpd == [node \in AllNodes(fileSystem) |->
                         workingStateUpdater(node, activeFileId)]
       IN  IF fileToSave = NoNode \/ ~fileToSave.isDirty
           THEN /\ UNCHANGED <<fileSystem, savedFileSystem>>
                /\ lastCall' = [fn |-> "handleSaveFile", fileId |-> activeFileId,
                                ret |-> FALSE]
           ELSE /\ savedFileSystem' =
                       updateNodeInTree(savedFileSystem, activeFileId, savedUpd)
                /\ fileSystem' = updateNodeInTree(fileSystem, activeFileId, workUpd)
                /\ lastCall' = [fn |-> "handleSaveFile", fileId |-> activeFileId,
                                ret |-> TRUE]
    /\ ops' = ops + 1
    /\ UNCHANGED <<textVars, termVars>>
    /\ UNCHANGED <<diffFile, openFiles, activeFileId, nextId>>
    /\ RenderApp(diffFile', savedFileSystem')

\* The node handleNewItem builds (lines 125-140).
newItemNode(id, type, name) ==
    IF type = "file"
    THEN FileNode(id, name,
                  IF LastSegment(name) = <<>> THEN TypescriptLang ELSE LastSegment(name),
                  <<>>, "A", TRUE)
    ELSE FolderNode(id, name, <<>>)

\* handleNewItemLocal (lines 254-259) with handleNewItem (lines 114-149).
handleNewItemLocal ==
    /\ HandlerReady
    /\ nextId < MaxNew
    /\ \E parentId \in {NoId} \cup AllFolderIds(fileSystem),
          type \in {"file", "folder"}, name \in NewNames \cup {<<>>} :
          IF name = <<>> \/ ~validateFileName(name)
          THEN /\ UNCHANGED <<fileSystem, diffFile, openFiles, activeFileId, nextId>>
               /\ lastCall' = [fn |-> "handleNewItem", name |-> name, ret |-> NoNode]
          ELSE LET newNode == newItemNode(FreshId(nextId), type, name)
               IN  /\ lastCall' = [fn |-> "handleNewItem", name |-> name, ret |-> newNode]
                   /\ fileSystem' =
                          IF parentId # NoId
                          THEN addNodeToFolder(fileSystem, parentId, newNode)
                          ELSE <<newNode>> \o fileSystem
                   /\ nextId' = nextId + 1
                   /\ IF type = "file"
                      THEN /\ diffFile' = NoNode
                           /\ openFiles' = openFile(openFiles, newNode)
                           /\ activeFileId' = newNode.id
                      ELSE UNCHANGED <<diffFile, openFiles, activeFileId>>
    /\ ops' = ops + 1
    /\ UNCHANGED <<textVars, termVars>>
    /\ UNCHANGED savedFileSystem
    /\ RenderApp(diffFile', savedFileSystem')

\* Discard may also follow the last of the MaxOps handler calls.
DiscardReady == pc \in {"idle", "done"} /\ ops <= MaxOps

\* resetToSaved (lines 316-318).
resetToSaved ==
    /\ DiscardReady
    /\ fileSystem' = savedFileSystem
    /\ lastCall' = [fn |-> "resetToSaved"]
    /\ ops' = ops + 1
    /\ UNCHANGED <<textVars, termVars>>
    /\ UNCHANGED <<savedFileSystem, diffFile, openFiles, activeFileId, nextId>>
    /\ RenderApp(diffFile', savedFileSystem')

\* The nodes the explorer's menu and drag-and-drop act on in this model: a
\* folder, a file with status 'A', a file with status 'M', and the first node
\* created (absent until it is); the names a rename may give; the folders a
\* node may be dropped on (NoId is the root).
MenuNodeIds == {"2", "3", "4", FreshId(0)}

RenameNames == {<<"r">>, <<>>, <<".">>, <<"a", "\\", "b">>}

MoveTargets == {NoId, "6", "2"}

\* handleRenameNodeLocal (lines 261-271) with handleRenameNode (lines 151-170).
handleRenameNodeLocal ==
    /\ HandlerReady
    /\ \E nodeId \in MenuNodeIds, newName \in RenameNames :
          IF ~validateFileName(newName)
          THEN /\ lastCall' = [fn |-> "handleRenameNode", name |-> newName,
                               ret |-> FALSE]
               /\ UNCHANGED <<fileSystem, openFiles>>
          ELSE LET updater == [node \in AllNodes(fileSystem) |->
                                   renameUpdater(node, newName)]
               IN  /\ fileSystem' = updateNodeInTree(fileSystem, nodeId, updater)
                   /\ openFiles' = IF isFileOpen(openFiles, nodeId)
                                   THEN updateFile(openFiles, nodeId,
                                                   [name |-> newName])
                                   ELSE openFiles
                   /\ lastCall' = [fn |-> "handleRenameNode", name |-> newName,
                                   ret |-> TRUE]
    /\ ops' = ops + 1
    /\ UNCHANGED <<textVars, termVars>>
    /\ UNCHANGED <<savedFileSystem, diffFile, activeFileId, nextId>>
    /\ RenderApp(diffFile', savedFileSystem')

\* handleDeleteNodeLocal (lines 273-284) with handleDeleteNode (lines
\* 172-201).  window.confirm is answered either way.  deletedFileIds is
\* filled by the updater passed to setFileSystem: when React runs it at once
\* (ranEagerly) the tabs of the deleted files are closed, each closeFile
\* working from the tabs and the active tab of the current render; when
\* React defers it the array is still empty and no tab is closed.
handleDeleteNodeLocal ==
    /\ HandlerReady
    /\ \E nodeId \in MenuNodeIds, confirmed \in BOOLEAN, ranEagerly \in BOOLEAN :
          IF ~confirmed
          THEN /\ ~ranEagerly
               /\ lastCall' = [fn |-> "handleDeleteNode", nodeId |-> nodeId,
                               ret |-> FALSE]
               /\ UNCHANGED <<fileSystem, openFiles, activeFileId>>
          ELSE LET ids == deletedFileIds(fileSystem, nodeId)
                   closed == IF ranEagerly
                             THEN SelectSeq(ids, LAMBDA id : isFileOpen(openFiles, id))
                             ELSE <<>>
               IN  /\ fileSystem' = deleteRecursive(fileSystem, nodeId)
                   /\ openFiles' = closeFileTabs(openFiles, Range(closed))
                   /\ activeFileId' =
                          IF closed = <<>> THEN activeFileId
                          ELSE closeFileActive(openFiles, activeFileId,
                                               closed[Len(closed)])
                   /\ lastCall' = [fn |-> "handleDeleteNode", nodeId |-> nodeId,
                                   ret |-> TRUE]
    /\ ops' = ops + 1
    /\ UNCHANGED <<textVars, termVars>>
    /\ UNCHANGED <<savedFileSystem, diffFile, nextId>>
    /\ RenderApp(diffFile', savedFileSystem')

\* handleDuplicateNode (lines 286-291) with duplicateNode (lines 203-244).
handleDuplicateNode ==
    /\ HandlerReady
    /\ nextId < MaxNew
    /\ \E nodeId \in MenuNodeIds :
          LET node == findNodeRecursive(fileSystem, nodeId) IN
          IF node = NoNode
          THEN /\ lastCall' = [fn |-> "duplicateNode", nodeId |-> nodeId,
                               ret |-> NoNode]
               /\ UNCHANGED <<fileSystem, diffFile, openFiles, activeFileId, nextId>>
          ELSE LET newNode == duplicateOf(node, FreshId(nextId))
                   parentId == findParent(fileSystem, nodeId)
               IN  /\ fileSystem' =
                          IF parentId # NoId
                          THEN addNodeToFolder(fileSystem, parentId, newNode)
                          ELSE <<newNode>> \o fileSystem
                   /\ nextId' = nextId + 1
                   /\ lastCall' = [fn |-> "duplicateNode", nodeId |-> nodeId,
                                   ret |-> newNode]
                   /\ IF newNode.type = "file"
                      THEN /\ diffFile' = NoNode
                           /\ openFiles' = openFile(openFiles, newNode)
                           /\ activeFileId' = newNode.id
                      ELSE UNCHANGED <<diffFile, openFiles, activeFileId>>
    /\ ops' = ops + 1
    /\ UNCHANGED <<textVars, termVars>>
    /\ UNCHANGED savedFileSystem
    /\ RenderApp(diffFile', savedFileSystem')

\* handleMoveNode (lines 293-295) with moveNode (lines 246-274).
handleMoveNode ==
    /\ HandlerReady
    /\ \E nodeId \in MenuNodeIds, targetParentId \in MoveTargets :
          LET node == findNodeRecursive(fileSystem, nodeId) IN
          IF node = NoNode
          THEN /\ lastCall' = [fn |-> "moveNode", nodeId |-> nodeId, ret |-> FALSE]
               /\ UNCHANGED fileSystem
          ELSE LET withoutNode == removeFromCurrent(fileSystem, nodeId)
               IN  /\ fileSystem' =
                          IF targetParentId # NoId
                          THEN addNodeToFolder(withoutNode, targetParentId, node)
                          ELSE <<node>> \o withoutNode
                   /\ lastCall' = [fn |-> "moveNode", nodeId |-> nodeId,
                                   ret |-> TRUE]
    /\ ops' = ops + 1
    /\ UNCHANGED <<textVars, termVars>>
    /\ UNCHANGED <<savedFileSystem, diffFile, openFiles, activeFileId, nextId>>
    /\ RenderApp(diffFile', savedFileSystem')

\* The state of the hooks after construction, with nothing in localStorage.
AppFresh ==
    /\ fileSystem = initialFileSystem
    /\ savedFileSystem = initialFileSystem
    /\ diffFile = NoNode
    /\ openFiles = <<>>
    /\ activeFileId = NoId
    /\ nextId = 0
    /\ ops = 0
    /\ lastCall = [fn |-> "none"]

-----------------------------------------------------------------------------
(* utils/editorText.ts: the editor's text operations (pure functions) *)

TAB == "\t"

\* No call made, and the value of textResult before the call returns.
NoCall == [fn |-> "none"]

Pending == [returned |-> FALSE]

Returns(v) == [returned |-> TRUE, value |-> v]

\* value.substring(start, end): arguments are clamped to [0, length] and
\* swapped when start > end.
substring(str, start, end) ==
    LET a == Max(0, Min(start, Len(str)))
        b == Max(0, Min(end, Len(str)))
    IN  SubSeq(str, Min(a, b) + 1, Max(a, b))

\* lines.join('\n')
RECURSIVE Join(_)
Join(lines) ==
    IF lines = <<>> THEN <<>>
    ELSE IF Len(lines) = 1 THEN lines[1]
    ELSE lines[1] \o <<NL>> \o Join(Tail(lines))

\* The mutant of insertTabAtSelection: the selected text is kept.
insertTabAtSelectionKeepSelection(value, selectionStart, selectionEnd) ==
    LET before == substring(value, 0, selectionStart)
        after  == substring(value, selectionStart, Len(value))
    IN  [newValue |-> before \o <<TAB>> \o after,
         newCursorPosition |-> selectionStart + 1]

\* insertTabAtSelection (lines 6-18).
insertTabAtSelection(value, selectionStart, selectionEnd) ==
    LET before == substring(value, 0, selectionStart)
        after  == substring(value, selectionEnd, Len(value))
    IN  [newValue |-> before \o <<TAB>> \o after,
         newCursorPosition |-> selectionStart + 1]

\* getCurrentLineIndex (lines 20-23).
getCurrentLineIndex(value, selectionStart) ==
    Len(SplitLines(substring(value, 0, selectionStart))) - 1

\* lines[index] ?? '' for a 0-based index.
LineOrEmpty(lines, index) ==
    IF index + 1 \in DOMAIN lines THEN At(lines, index) ELSE <<>>

\* newLines.splice(start, 0, item) on a copy: item is inserted at index start
\* (start is clamped to the length).
SpliceInsert(lines, start, item) ==
    LET at == Min(start, Len(lines))
    IN  SubSeq(lines, 1, at) \o <<item>> \o SubSeq(lines, at + 1, Len(lines))

\* The mutant of duplicateLineAtIndex: the copy is an empty line.
duplicateLineAtIndexEmptyCopy(value, selectionStart) ==
    LET lines == SplitLines(value)
        currentLineIndex == getCurrentLineIndex(value, selectionStart)
    IN  Join(SpliceInsert(lines, currentLineIndex + 1, <<>>))

\* duplicateLineAtIndex (lines 25-31).
duplicateLineAtIndex(value, selectionStart) ==
    LET lines == SplitLines(value)
        currentLineIndex == getCurrentLineIndex(value, selectionStart)
    IN  Join(SpliceInsert(lines, currentLineIndex + 1,
                          LineOrEmpty(lines, currentLineIndex)))

\* lines.filter((_, index) => index !== skip)
RECURSIVE FilterIndex(_, _, _)
FilterIndex(lines, skip, index) ==
    IF lines = <<>> THEN <<>>
    ELSE (IF index # skip THEN <<Head(lines)>> ELSE <<>>)
         \o FilterIndex(Tail(lines), skip, index + 1)

\* The mutant of deleteLineAtIndex: the first line is the one removed.
deleteLineAtIndexFirst(value, selectionStart) ==
    LET lines == SplitLines(value)
    IN  Join(FilterIndex(lines, 0, 0))

\* deleteLineAtIndex (lines 33-38).
deleteLineAtIndex(value, selectionStart) ==
    LET lines == SplitLines(value)
        currentLineIndex == getCurrentLineIndex(value, selectionStart)
    IN  Join(FilterIndex(lines, currentLineIndex, 0))

\* The mutant of getLineSelectionRange: the newline before the line is not
\* counted.
getLineSelectionRangeNoSeparator(value, selectionStart) ==
    LET lines == SplitLines(value)
        currentLineIndex == getCurrentLineIndex(value, selectionStart)
        lineStart == Len(Join(SubSeq(lines, 1, Min(currentLineIndex, Len(lines)))))
        lineEnd == lineStart + Len(LineOrEmpty(lines, currentLineIndex))
    IN  [start |-> lineStart, end |-> lineEnd]

\* getLineSelectionRange (lines 45-51).
getLineSelectionRange(value, selectionStart) ==
    LET lines == SplitLines(value)
        currentLineIndex == getCurrentLineIndex(value, selectionStart)
        lineStart == Len(Join(SubSeq(lines, 1, Min(currentLineIndex, Len(lines)))))
                     + (IF currentLineIndex > 0 THEN 1 ELSE 0)
        lineEnd == lineStart + Len(LineOrEmpty(lines, currentLineIndex))
    IN  [start |-> lineStart, end |-> lineEnd]

\* The characters the character class of line 64 escapes.
RegexSpecials ==
    {".", "*", "+", "?", "^", "$", "{", "}", "(", ")", "|", "[", "]", "\\"}

\* term.replace(/[.*+?^${}()|[\]\\]/g, '\\$&') (line 64).
RECURSIVE escaped(_)
escaped(term) ==
    IF term = <<>> THEN <<>>
    ELSE (IF Head(term) \in RegexSpecials
          THEN <<"\\", Head(term)>>
          ELSE <<Head(term)>>) \o escaped(Tail(term))

\* The source text of the pattern (lines 64-65), useRegex being false.
bounded(term, options) ==
    IF options.wholeWord
    THEN <<"\\", "b">> \o escaped(term) \o <<"\\", "b">>
    ELSE escaped(term)

\* new RegExp(source, flags): the atoms of the pattern.  "\b" is the word
\* boundary, "\c" the character c, "." any character but a line terminator;
\* any other character stands for itself (the terms of the model hold no
\* other metacharacter).
RECURSIVE RegExpAtoms(_)
RegExpAtoms(source) ==
    IF source = <<>> THEN <<>>
    ELSE IF Head(source) = "\\" /\ Len(source) >= 2
    THEN <<(IF source[2] = "b" THEN [kind |-> "boundary"]
            ELSE [kind |-> "char", ch |-> source[2]])>>
         \o RegExpAtoms(SubSeq(source, 3, Len(source)))
    ELSE <<(IF Head(source) = "." THEN [kind |-> "any"]
            ELSE [kind |-> "char", ch |-> Head(source)])>>
         \o RegExpAtoms(Tail(source))

\* buildSearchPattern (lines 59-67) for useRegex = false.
buildSearchPattern(term, options) ==
    [atoms |-> RegExpAtoms(bounded(term, options)),
     ignoreCase |-> ~options.caseSensitive]

\* Canonicalize of a pattern with the i flag: the upper-case form.
Canonicalize(ch, ignoreCase) ==
    IF ~ignoreCase THEN ch
    ELSE IF ch = "a" THEN "A"
    ELSE IF ch = "b" THEN "B"
    ELSE IF ch = "x" THEN "X"
    ELSE ch

\* \w
WordChars == {"a", "b", "x", "A", "B", "X", "_"}

\* The assertion \b at 0-based position p of value.
AtWordBoundary(value, p) ==
    LET left  == p >= 1 /\ value[p] \in WordChars
        right == p < Len(value) /\ value[p + 1] \in WordChars
    IN  left # right

\* The end (0-based, exclusive) of the match of atoms that starts at 0-based
\* position p of value, or -1 when there is none.
RECURSIVE MatchAt(_, _, _, _)
MatchAt(value, p, atoms, ignoreCase) ==
    IF atoms = <<>> THEN p
    ELSE LET atom == Head(atoms) IN
         IF atom.kind = "boundary"
         THEN IF AtWordBoundary(value, p)
              THEN MatchAt(value, p, Tail(atoms), ignoreCase)
              ELSE -1
         ELSE IF p >= Len(value) THEN -1
         ELSE IF atom.kind = "any"
         THEN IF value[p + 1] # NL
              THEN MatchAt(value, p + 1, Tail(atoms), ignoreCase)
              ELSE -1
         ELSE IF Canonicalize(value[p + 1], ignoreCase)
                    = Canonicalize(atom.ch, ignoreCase)
              THEN MatchAt(value, p + 1, Tail(atoms), ignoreCase)
              ELSE -1

\* String.prototype.replace expands the replacement for each match (line 77):
\* $$ is a dollar sign, $& the match, $` the text before it, $' the text
\* after it; the pattern has no groups, so $1.. and $< stay as written.
RECURSIVE GetSubstitution(_, _, _, _)
GetSubstitution(matched, str, position, replacement) ==
    IF replacement = <<>> THEN <<>>
    ELSE IF Head(replacement) = "$" /\ Len(replacement) >= 2
            /\ replacement[2] \in {"$", "&", "`", "'"}
    THEN (CASE replacement[2] = "$" -> <<"$">>
            [] replacement[2] = "&" -> matched
            [] replacement[2] = "`" -> SubSeq(str, 1, position)
            [] replacement[2] = "'" ->
                 SubSeq(str, position + Len(matched) + 1, Len(str)))
         \o GetSubstitution(matched, str, position,
                            SubSeq(replacement, 3, Len(replacement)))
    ELSE <<Head(replacement)>>
         \o GetSubstitution(matched, str, position, Tail(replacement))

\* value.replace(pattern, replacement) for a global pattern (line 77), from
\* 0-based position p on: the leftmost match, its substitution, and on from
\* the end of the match (one character further after an empty match).
RECURSIVE ReplaceFrom(_, _, _, _)
ReplaceFrom(value, p, pattern, replacement) ==
    LET e == MatchAt(value, p, pattern.atoms, pattern.ignoreCase) IN
    IF e # -1
    THEN GetSubstitution(SubSeq(value, p + 1, e), value, p, replacement)
         \o (IF e > p THEN ReplaceFrom(value, e, pattern, replacement)
             ELSE IF p < Len(value)
             THEN <<value[p + 1]>> \o ReplaceFrom(value, p + 1, pattern, replacement)
             ELSE <<>>)
    ELSE IF p < Len(value)
    THEN <<value[p + 1]>> \o ReplaceFrom(value, p + 1, pattern, replacement)
    ELSE <<>>

\* replaceInText (lines 69-78).
replaceInText(value, term, replacement, options) ==
    IF term = <<>> THEN value
    ELSE ReplaceFrom(value, 0, buildSearchPattern(term, options), replacement)

\* The calls of the model: every value up to MaxLen characters with every
\* cursor offset or selection inside it, and the plain-text replacements.
MaxTerm == 2

MaxRepl == 2

SeqsUpTo(S, len) == UNION {[1..k -> S] : k \in 0..len}

ReplaceValues == SeqsUpTo({"a", "A", "."}, MaxLen)

ReplaceTerms == SeqsUpTo({"a", "A", "."}, MaxTerm)

Replacements == SeqsUpTo({"x", "$", "&"}, MaxRepl)

ReplaceOptionSets ==
    [useRegex : {FALSE}, caseSensitive : BOOLEAN, wholeWord : BOOLEAN]

TabCalls ==
    {[fn |-> "insertTabAtSelection", value |-> v, selectionStart |-> st,
      selectionEnd |-> en] :
        <<v, st, en>> \in {t \in Texts \X (0..MaxLen) \X (0..MaxLen) :
                              t[2] <= t[3] /\ t[3] <= Len(t[1])}}

LineCalls ==
    {[fn |-> f, value |-> v, selectionStart |-> st] :
        <<f, v, st>> \in
            {t \in {"duplicateLineAtIndex", "deleteLineAtIndex",
                    "getLineSelectionRange"} \X Texts \X (0..MaxLen) :
                t[3] <= Len(t[2])}}

ReplaceCalls ==
    {[fn |-> "replaceInText", value |-> v, term |-> t, replacement |-> r,
      options |-> o] :
        <<v, t, r, o>> \in
            ReplaceValues \X ReplaceTerms \X Replacements \X ReplaceOptionSets}

TextCalls == TabCalls \cup LineCalls \cup ReplaceCalls

RunInsertTabAtSelection ==
    /\ textCall.fn = "insertTabAtSelection"
    /\ ~textResult.returned
    /\ textResult' = Returns(insertTabAtSelection(textCall.value,
                         textCall.selectionStart, textCall.selectionEnd))
    /\ UNCHANGED <<textCall, diffVars, appVars, termVars>>

RunDuplicateLineAtIndex ==
    /\ textCall.fn = "duplicateLineAtIndex"
    /\ ~textResult.returned
    /\ textResult' = Returns(duplicateLineAtIndex(textCall.value,
                                                  textCall.selectionStart))
    /\ UNCHANGED <<textCall, diffVars, appVars, termVars>>

RunDeleteLineAtIndex ==
    /\ textCall.fn = "deleteLineAtIndex"
    /\ ~textResult.returned
    /\ textResult' = Returns(deleteLineAtIndex(textCall.value,
                                               textCall.selectionStart))
    /\ UNCHANGED <<textCall, diffVars, appVars, termVars>>

RunGetLineSelectionRange ==
    /\ textCall.fn = "getLineSelectionRange"
    /\ ~textResult.returned
    /\ textResult' = Returns(getLineSelectionRange(textCall.value,
                                                   textCall.selectionStart))
    /\ UNCHANGED <<textCall, diffVars, appVars, termVars>>

RunReplaceInText ==
    /\ textCall.fn = "replaceInText"
    /\ ~textResult.returned
    /\ textResult' = Returns(replaceInText(textCall.value, textCall.term,
                                 textCall.replacement, textCall.options))
    /\ UNCHANGED <<textCall, diffVars, appVars, termVars>>

\* No editor operation in progress.
TextFresh ==
    /\ textCall = NoCall
    /\ textResult = Pending

-----------------------------------------------------------------------------
(* hooks/useTerminal.ts: the command history *)

MaxCmds == 3

MaxNav == 4

\* The lines typed at the prompt: empty, blank, and commands with and
\* without surrounding blanks.
CommandLines ==
    {<<>>, <<" ">>, <<"l", "s">>, <<" ", "l", "s", " ">>, <<"p", "w", "d">>,
     <<"x", " ", "y">>}

\* commandLine.trim()
RECURSIVE TrimStart(_)
TrimStart(str) ==
    IF str # <<>> /\ Head(str) \in Whitespace THEN TrimStart(Tail(str)) ELSE str

RECURSIVE TrimEnd(_)
TrimEnd(str) ==
    IF str # <<>> /\ str[Len(str)] \in Whitespace
    THEN TrimEnd(SubSeq(str, 1, Len(str) - 1))
    ELSE str

trim(str) == TrimEnd(TrimStart(str))

\* What navigateHistory returns: a string, or null.
NullRet == [isNull |-> TRUE]

StrRet(str) == [isNull |-> FALSE, value |-> str]

\* addToHistory (lines 30-32).
addToHistory(lines, type, content) ==
    Append(lines, [type |-> type, content |-> content])

\* The two welcome lines (lines 21-24); output texts are not modelled.
WelcomeLines ==
    << [type |-> "output", content |-> <<"W">>],
       [type |-> "output", content |-> <<"T">>] >>

\* executeCommand (lines 278-300).  Whether the command is found, what it
\* returns and whether it throws decide only if an output line is added.
executeCommand ==
    /\ Len(commandHistory) < MaxCmds
    /\ Len(navTrace) < MaxNav
    /\ \E commandLine \in CommandLines, givesOutput \in BOOLEAN :
          LET trimmed == trim(commandLine) IN
          IF trimmed = <<>>
          THEN /\ ~givesOutput
               /\ navTrace' = Append(navTrace,
                                  [call |-> "blank", ret |-> NullRet,
                                   index |-> historyIndex])
               /\ UNCHANGED <<commandHistory, historyIndex, history>>
          ELSE /\ commandHistory' = Append(commandHistory, trimmed)
               /\ historyIndex' = -1
               /\ history' =
                     IF givesOutput
                     THEN addToHistory(addToHistory(history, "input", trimmed),
                                       "output", <<"R">>)
                     ELSE addToHistory(history, "input", trimmed)
               /\ navTrace' = <<>>
    /\ UNCHANGED <<diffVars, appVars, textVars>>

\* The mutant of navigateResult: 'up' may step past the oldest command.
navigateResultNoUpperLimit(direction, cmds, index) ==
    IF direction = "up" /\ index < Len(cmds)
    THEN [index |-> index + 1,
          ret |-> IF Len(cmds) - (index + 1) \in DOMAIN cmds
                  THEN StrRet(cmds[Len(cmds) - (index + 1)]) ELSE NullRet]
    ELSE IF direction = "down" /\ index > 0
    THEN [index |-> index - 1, ret |-> StrRet(cmds[Len(cmds) - (index - 1)])]
    ELSE IF direction = "down" /\ index = 0
    THEN [index |-> -1, ret |-> StrRet(<<>>)]
    ELSE [index |-> index, ret |-> NullRet]

\* The body of navigateHistory (lines 303-313): the new historyIndex and the
\* value returned.  commandHistory.current[length - 1 - k] is cmds[length - k].
navigateResult(direction, cmds, index) ==
    IF direction = "up" /\ index < Len(cmds) - 1
    THEN [index |-> index + 1, ret |-> StrRet(cmds[Len(cmds) - (index + 1)])]
    ELSE IF direction = "down" /\ index > 0
    THEN [index |-> index - 1, ret |-> StrRet(cmds[Len(cmds) - (index - 1)])]
    ELSE IF direction = "down" /\ index = 0
    THEN [index |-> -1, ret |-> StrRet(<<>>)]
    ELSE [index |-> index, ret |-> NullRet]

\* navigateHistory (lines 302-314).
navigateHistory ==
    /\ Len(navTrace) < MaxNav
    /\ \E direction \in {"up", "down"} :
          LET r == navigateResult(direction, commandHistory, historyIndex)
          IN  /\ historyIndex' = r.index
              /\ navTrace' = Append(navTrace,
                                 [call |-> direction, ret |-> r.ret,
                                  index |-> r.index])
    /\ UNCHANGED <<commandHistory, history>>
    /\ UNCHANGED <<diffVars, appVars, textVars>>

\* The state of the hook after construction.
TerminalFresh ==
    /\ commandHistory = <<>>
    /\ historyIndex = -1
    /\ history = WelcomeLines
    /\ navTrace = <<>>

-----------------------------------------------------------------------------
(* The diff engine on its own: the inputs are drawn at the start. *)

Init ==
    /\ AppFresh
    /\ TextFresh
    /\ TerminalFresh
    /\ \E inp \in Inputs : DiffFresh(inp[1], inp[2])

Next == DiffStep

Spec == Init /\ [][Next]_vars

\* generateDiff and the render are synchronous code: once called they run on.
FairSpec == Spec /\ WF_vars(Next)

-----------------------------------------------------------------------------
(* The application: handlers, each followed by the render of the diff view. *)

AppInit ==
    /\ AppFresh
    /\ TextFresh
    /\ TerminalFresh
    /\ oldStr = <<>>
    /\ newStr = <<>>
    /\ pc = "idle"
    /\ oldLines = <<>>
    /\ newLines = <<>>
    /\ dp = ZeroTable(0, 0)
    /\ fi = 0
    /\ fj = 0
    /\ i = 0
    /\ j = 0
    /\ diff = <<>>
    /\ early = FALSE
    /\ oldLineNum = 1
    /\ newLineNum = 1
    /\ rendered = <<>>

AppNext ==
    \/ handleOpenFile
    \/ handleShowDiff
    \/ handleCodeChangeLocal
    \/ handleSaveFile
    \/ handleNewItemLocal
    \/ resetToSaved
    \/ DiffStep

AppSpec == AppInit /\ [][AppNext]_vars

-----------------------------------------------------------------------------
(* The explorer and Source Control: the handlers that work on the trees. *)

FsInit == AppInit

FsNext ==
    \/ handleOpenFile
    \/ handleCodeChangeLocal
    \/ handleSaveFile
    \/ handleNewItemLocal
    \/ handleRenameNodeLocal
    \/ handleDeleteNodeLocal
    \/ handleDuplicateNode
    \/ handleMoveNode
    \/ resetToSaved

FsSpec == FsInit /\ [][FsNext]_vars

-----------------------------------------------------------------------------
(* The editor's text operations on their own: one call, drawn at the start. *)

TextInit ==
    /\ AppFresh
    /\ TerminalFresh
    /\ DiffIdle
    /\ textCall \in TextCalls
    /\ textResult = Pending

TextNext ==
    \/ RunInsertTabAtSelection
    \/ RunDuplicateLineAtIndex
    \/ RunDeleteLineAtIndex
    \/ RunGetLineSelectionRange
    \/ RunReplaceInText

TextSpec == TextInit /\ [][TextNext]_vars

-----------------------------------------------------------------------------
(* The terminal on its own: commands are run and the history is walked. *)

TermInit ==
    /\ AppFresh
    /\ TextFresh
    /\ TerminalFresh
    /\ DiffIdle

TermNext ==
    \/ executeCommand
    \/ navigateHistory

TermSpec == TermInit /\ [][TermNext]_vars

-----------------------------------------------------------------------------
(* Vocabulary of the properties *)

\* generateDiff has returned its array.
Returned == pc \in {"render", "done"}

NotAdd(e) == e.type # "add"

NotDel(e) == e.type # "del"

IsChange(e) == e.type # "common"

Contents(seq) == [k \in 1..Len(seq) |-> seq[k].content]

Types(seq) == {seq[k].type : k \in 1..Len(seq)}

RECURSIVE IsSubseq(_, _)
IsSubseq(s, t) ==
    IF s = <<>> THEN TRUE
    ELSE IF t = <<>> THEN FALSE
    ELSE IF Head(s) = Head(t) THEN IsSubseq(Tail(s), Tail(t))
    ELSE IsSubseq(s, Tail(t))

RECURSIVE PickFrom(_, _, _)
PickFrom(s, S, k) ==
    IF k > Len(s) THEN <<>>
    ELSE IF k \in S THEN <<s[k]>> \o PickFrom(s, S, k + 1)
    ELSE PickFrom(s, S, k + 1)

\* The length of a longest common subsequence, by enumeration of the
\* subsequences of O (independent of the dp table).
LCSLen(O, N) ==
    LET common == {S \in SUBSET (1..Len(O)) : IsSubseq(PickFrom(O, S, 1), N)}
    IN  CHOOSE k \in 0..Len(O) :
            /\ \E S \in common : Cardinality(S) = k
            /\ \A S \in common : Cardinality(S) <= k

\* The old (new) line numbers the rendered rows report, in order.
OldNumbers == [k \in 1..Len(SelectSeq(rendered, NotAdd)) |->
                   SelectSeq(rendered, NotAdd)[k].oldLine]

NewNumbers == [k \in 1..Len(SelectSeq(rendered, NotDel)) |->
                   SelectSeq(rendered, NotDel)[k].newLine]

SwapOld == <<"a", NL, "b">>

SwapNew == <<"b", NL, "a">>

-----------------------------------------------------------------------------
(* C1 *)

\* C1 (as claimed): for every pair of texts, the entries of the result that
\* are not 'add', read in order, are the old lines, and the entries that
\* are not 'del', read in order, are the new lines.
C1_Coverage ==
    Returned =>
        /\ Contents(SelectSeq(diff, NotAdd)) = SplitLines(oldStr)
        /\ Contents(SelectSeq(diff, NotDel)) = SplitLines(newStr)

\* C1 (amended): the entries that are not 'del' are always the new lines in
\* order; the entries that are not 'add' are the old lines in order when
\* oldText is not empty, and there is no such entry when oldText is empty
\* (its single empty line is reported neither Common nor Deleted).
C1_CoverageAmended ==
    Returned =>
        /\ Contents(SelectSeq(diff, NotDel)) = SplitLines(newStr)
        /\ oldStr # <<>> => Contents(SelectSeq(diff, NotAdd)) = SplitLines(oldStr)
        /\ oldStr = <<>> => SelectSeq(diff, NotAdd) = <<>>

C1_Witness ==
    /\ Returned
    /\ oldStr # <<>>
    /\ Types(diff) = {"common", "add", "del"}

-----------------------------------------------------------------------------
(* C2 *)

\* C2 (as claimed): for every pair of texts the number of Added plus Deleted
\* lines is m + n - 2 * LCS(O, N), the least any line alignment needs.
C2_Minimality ==
    Returned =>
        Len(SelectSeq(diff, IsChange)) = m + n - 2 * LCSLen(oldLines, newLines)

\* C2 (amended): that holds when oldText is not empty; when oldText is
\* empty the result has exactly n changed lines (all Added).
C2_MinimalityAmended ==
    Returned =>
        /\ oldStr # <<>> =>
              Len(SelectSeq(diff, IsChange)) = m + n - 2 * LCSLen(oldLines, newLines)
        /\ oldStr = <<>> => Len(SelectSeq(diff, IsChange)) = n

C2_Witness ==
    /\ Returned
    /\ oldStr # <<>>
    /\ LCSLen(oldLines, newLines) >= 1
    /\ Len(SelectSeq(diff, IsChange)) >= 2
    /\ m + n - 2 * LCSLen(oldLines, newLines) = Len(SelectSeq(diff, IsChange))

-----------------------------------------------------------------------------
(* C3 *)

\* C3: the up-front branch is taken exactly when oldText is the empty
\* string, and then the rendered result is one Added row per line of
\* newText, in order, numbered 1, 2, 3, ... with no old number;
\* diff("", "x\ny") is Added x at 1, Added y at 2.
C3_EmptyBaseline ==
    /\ pc # "start" => (early <=> oldStr = <<>>)
    /\ (pc = "done" /\ oldStr = <<>>) =>
          rendered = [k \in 1..Len(SplitLines(newStr)) |->
                         [type |-> "add", content |-> SplitLines(newStr)[k],
                          oldLine |-> Null, newLine |-> k]]
    /\ (pc = "done" /\ oldStr = <<>> /\ newStr = ScenarioXY) =>
          rendered = << [type |-> "add", content |-> <<"x">>,
                         oldLine |-> Null, newLine |-> 1],
                        [type |-> "add", content |-> <<"y">>,
                         oldLine |-> Null, newLine |-> 2] >>

C3_Witness ==
    /\ pc = "done"
    /\ oldStr = <<>>
    /\ early
    /\ Len(rendered) >= 2

-----------------------------------------------------------------------------
(* C4 *)

\* C4 (as claimed): for every oldText, the diff against the empty target
\* consists solely of Deleted lines, the lines of oldText in order.
C4_EmptyTarget ==
    (Returned /\ newStr = <<>>) =>
        /\ \A k \in 1..Len(diff) : diff[k].type = "del"
        /\ Contents(diff) = SplitLines(oldStr)

-----------------------------------------------------------------------------
(* C5 *)

\* C5 (as claimed): for any text x, the empty one included, the rendered
\* diff of x with itself is all Common, row k numbered (k, k).
C5_Identity ==
    (pc = "done" /\ oldStr = newStr) =>
        rendered = [k \in 1..Len(SplitLines(oldStr)) |->
                       [type |-> "common", content |-> SplitLines(oldStr)[k],
                        oldLine |-> k, newLine |-> k]]

\* C5 (amended): for any non-empty text x, the rendered diff of x with
\* itself is all Common, row k numbered (k, k).
C5_IdentityAmended ==
    (pc = "done" /\ oldStr = newStr /\ oldStr # <<>>) =>
        rendered = [k \in 1..Len(SplitLines(oldStr)) |->
                       [type |-> "common", content |-> SplitLines(oldStr)[k],
                        oldLine |-> k, newLine |-> k]]

C5_Witness ==
    /\ pc = "done"
    /\ oldStr = newStr
    /\ Len(rendered) >= 2
    /\ Types(rendered) = {"common"}

-----------------------------------------------------------------------------
(* C6 *)

\* The part of C6 that concerns every rendered row: a Common row reports
\* both numbers, a Deleted row only an old one, an Added row only a new
\* one; the numbers are handed out in emission order; a reported old
\* number k means the text is the k-th old line, a reported new number k
\* that it is the k-th new line.
RowsNumbered ==
    /\ \A k \in 1..Len(rendered) :
          LET r == rendered[k]
          IN  /\ r.type = "common" => r.oldLine # Null /\ r.newLine # Null
              /\ r.type = "del" => r.oldLine # Null /\ r.newLine = Null
              /\ r.type = "add" => r.oldLine = Null /\ r.newLine # Null
              /\ r.oldLine # Null =>
                    /\ r.oldLine \in 1..Len(SplitLines(oldStr))
                    /\ r.content = SplitLines(oldStr)[r.oldLine]
              /\ r.newLine # Null =>
                    /\ r.newLine \in 1..Len(SplitLines(newStr))
                    /\ r.content = SplitLines(newStr)[r.newLine]
    /\ OldNumbers = [k \in 1..Len(OldNumbers) |-> k]
    /\ NewNumbers = [k \in 1..Len(NewNumbers) |-> k]
    /\ oldLineNum = Len(OldNumbers) + 1
    /\ newLineNum = Len(NewNumbers) + 1

\* C6 (as claimed): RowsNumbered, and at the end the old counter is the
\* number of old lines plus one and the new counter the number of new lines
\* plus one.
C6_LineNumbering ==
    /\ RowsNumbered
    /\ pc = "done" =>
          /\ oldLineNum = Len(SplitLines(oldStr)) + 1
          /\ newLineNum = Len(SplitLines(newStr)) + 1

\* C6 (amended): RowsNumbered; at the end the new counter is the number of
\* new lines plus one, and the old counter is the number of old lines plus
\* one unless oldText is empty, when it is still 1.
C6_LineNumberingAmended ==
    /\ RowsNumbered
    /\ pc = "done" =>
          /\ newLineNum = Len(SplitLines(newStr)) + 1
          /\ oldStr # <<>> => oldLineNum = Len(SplitLines(oldStr)) + 1
          /\ oldStr = <<>> => oldLineNum = 1

C6_Witness ==
    /\ pc = "done"
    /\ oldStr # <<>>
    /\ Types(rendered) = {"common", "add", "del"}
    /\ oldLineNum >= 3
    /\ newLineNum >= 3

-----------------------------------------------------------------------------
(* C7 *)

\* C7: a walk step at which the two lines differ and dp[i+1][j] equals
\* dp[i][j+1] pushes a Deleted entry for O[i] and advances i alone; and
\* the diff of "a\nb" against "b\na" is exactly Deleted a, Common b, Added a.
C7_TieBreak ==
    /\ [][ ( /\ pc = "walk"
             /\ i < m /\ j < n
             /\ At(oldLines, i) # At(newLines, j)
             /\ dp[i + 1][j] = dp[i][j + 1] )
           => ( /\ diff' = Append(diff, [type |-> "del", content |-> At(oldLines, i)])
                /\ i' = i + 1
                /\ j' = j ) ]_vars
    /\ []( (Returned /\ oldStr = SwapOld /\ newStr = SwapNew) =>
              diff = << [type |-> "del", content |-> <<"a">>],
                        [type |-> "common", content |-> <<"b">>],
                        [type |-> "add", content |-> <<"a">>] >> )

C7_Witness ==
    /\ Returned
    /\ oldStr = SwapOld
    /\ newStr = SwapNew
    /\ Len(diff) = 3
    /\ diff[1].type = "del"

-----------------------------------------------------------------------------
(* C8 *)

\* C8: for "one\ntwo\nthree" against "one\ntwo\nTHREE\nfour" the rendered
\* result is Common(one,1,1), Common(two,2,2), Deleted(three,3,null),
\* Added(THREE,null,3), Added(four,null,4), in that order.
C8_Scenario ==
    (pc = "done" /\ oldStr = ScenarioOld /\ newStr = ScenarioNew) =>
        rendered =
            << [type |-> "common", content |-> <<"o","n","e">>,
                oldLine |-> 1, newLine |-> 1],
               [type |-> "common", content |-> <<"t","w","o">>,
                oldLine |-> 2, newLine |-> 2],
               [type |-> "del", content |-> <<"t","h","r","e","e">>,
                oldLine |-> 3, newLine |-> Null],
               [type |-> "add", content |-> <<"T","H","R","E","E">>,
                oldLine |-> Null, newLine |-> 3],
               [type |-> "add", content |-> <<"f","o","u","r">>,
                oldLine |-> Null, newLine |-> 4] >>

C8_Witness ==
    /\ pc = "done"
    /\ oldStr = ScenarioOld
    /\ newStr = ScenarioNew
    /\ Len(rendered) = 5

-----------------------------------------------------------------------------
(* C9 *)

\* C9: generateDiff never fails and always terminates: every iteration of
\* the walk and flush loops advances i or j, no table read is out of
\* bounds, when the loops are left i is the number of old lines and j the
\* number of new lines, and every call reaches its end.
C9_Totality ==
    /\ [][ (pc \in {"walk", "flushDel", "flushAdd"} /\ pc' = pc)
           => i' + j' > i + j ]_vars
    /\ [](pc # "failed")
    /\ []((Returned /\ ~early) => (i = m /\ j = n))
    /\ <>(pc = "done")

C9_Witness ==
    /\ pc = "done"
    /\ ~early
    /\ m >= 2 /\ n >= 2
    /\ i = m /\ j = n
    /\ Types(diff) = {"common", "add", "del"}

-----------------------------------------------------------------------------
(* C10 *)

\* C10: whenever the diff view is rendered for a diffFile whose git status
\* is 'A' or 'U', or whose id names no file of the saved file system, the
\* oldContent prop is the empty string and the rendered diff shows every
\* line of the file's content as Added, numbered 1, 2, 3, ...
C10_MissingBaseline ==
    ( /\ diffFile # NoNode
      /\ pc # "idle"
      /\ \/ diffFile.gitStatus \in {"A", "U"}
         \/ findFileByIdRecursive(savedFileSystem, diffFile.id) = NoNode )
    => /\ oldStr = <<>>
       /\ newStr = diffFile.content
       /\ pc = "done" =>
             rendered = [k \in 1..Len(SplitLines(diffFile.content)) |->
                            [type |-> "add",
                             content |-> SplitLines(diffFile.content)[k],
                             oldLine |-> Null, newLine |-> k]]

C10_Witness ==
    /\ pc = "done"
    /\ diffFile # NoNode
    /\ findFileByIdRecursive(savedFileSystem, diffFile.id) = NoNode
    /\ Len(rendered) >= 2

-----------------------------------------------------------------------------
(* Vocabulary of the properties of the text operations *)

\* The call of the text operation fn has returned.
TextReturned(fn) == textCall.fn = fn /\ textResult.returned

\* The 0-based index of the line that holds offset s: the number of newlines
\* among the first s characters.
LineOfOffset(value, s) == Cardinality({k \in 1..s : value[k] = NL})

\* The text that occurs at 0-based position p of value is term, compared
\* exactly or ignoring the case of letters.
FoldCase(ch) == IF ch = "A" THEN "a" ELSE ch

OccursAt(value, p, term, caseSensitive) ==
    /\ p + Len(term) <= Len(value)
    /\ \A k \in 1..Len(term) :
          IF caseSensitive THEN value[p + k] = term[k]
          ELSE FoldCase(value[p + k]) = FoldCase(term[k])

\* Every occurrence of term found by a left-to-right scan from position p is
\* replaced by the replacement as written; the other characters are kept.
RECURSIVE ReplacedLiterally(_, _, _, _, _)
ReplacedLiterally(value, p, term, replacement, caseSensitive) ==
    IF p >= Len(value) THEN <<>>
    ELSE IF OccursAt(value, p, term, caseSensitive)
    THEN replacement
         \o ReplacedLiterally(value, p + Len(term), term, replacement, caseSensitive)
    ELSE <<value[p + 1]>>
         \o ReplacedLiterally(value, p + 1, term, replacement, caseSensitive)

-----------------------------------------------------------------------------
(* C11 *)

\* C11: duplicateLineAtIndex duplicates the current line: for every value and
\* cursor offset s with 0 <= s <= |value|, the lines of the result are the
\* lines of the value with one copy of the line that holds offset s inserted
\* right after it; the other lines are unchanged and in order, and there is
\* exactly one line more.
C11_DuplicateLine ==
    TextReturned("duplicateLineAtIndex") =>
        LET L  == SplitLines(textCall.value)
            R  == SplitLines(textResult.value)
            at == LineOfOffset(textCall.value, textCall.selectionStart) + 1
        IN  /\ Len(R) = Len(L) + 1
            /\ \A k \in 1..at : R[k] = L[k]
            /\ R[at + 1] = L[at]
            /\ \A k \in (at + 1)..Len(L) : R[k + 1] = L[k]

C11_Witness ==
    /\ TextReturned("duplicateLineAtIndex")
    /\ textCall.value = <<"a", NL, "b">>
    /\ textCall.selectionStart = 3
    /\ textResult.value = <<"a", NL, "b", NL, "b">>

-----------------------------------------------------------------------------
(* C12 *)

\* C12: deleteLineAtIndex deletes the current line: for every value and
\* cursor offset s with 0 <= s <= |value|, the result is the lines of the
\* value, joined by newlines, without the one line that holds offset s; the
\* other lines are kept in order.
C12_DeleteLine ==
    TextReturned("deleteLineAtIndex") =>
        LET L    == SplitLines(textCall.value)
            at   == LineOfOffset(textCall.value, textCall.selectionStart) + 1
            kept == [k \in 1..(Len(L) - 1) |-> IF k < at THEN L[k] ELSE L[k + 1]]
        IN  /\ at \in 1..Len(L)
            /\ textResult.value = Join(kept)

C12_Witness ==
    /\ TextReturned("deleteLineAtIndex")
    /\ textCall.value = <<"a", NL, "b">>
    /\ textCall.selectionStart = 2
    /\ textResult.value = <<"a">>

-----------------------------------------------------------------------------
(* C13 *)

\* C13: getLineSelectionRange returns the range of the current line: for
\* every value and cursor offset s with 0 <= s <= |value|, start <= s <= end,
\* value.slice(start, end) holds no newline, start is 0 or follows a newline,
\* and end is |value| or precedes a newline.
C13_LineRange ==
    TextReturned("getLineSelectionRange") =>
        LET value == textCall.value
            s     == textCall.selectionStart
            r     == textResult.value
        IN  /\ 0 <= r.start /\ r.start <= s /\ s <= r.end /\ r.end <= Len(value)
            /\ \A k \in (r.start + 1)..r.end : value[k] # NL
            /\ r.start = 0 \/ value[r.start] = NL
            /\ r.end = Len(value) \/ value[r.end + 1] = NL

C13_Witness ==
    /\ TextReturned("getLineSelectionRange")
    /\ textCall.value = <<"a", NL, "b">>
    /\ textCall.selectionStart = 2
    /\ textResult.value = [start |-> 2, end |-> 3]

-----------------------------------------------------------------------------
(* C14 *)

\* C14: insertTabAtSelection inserts a tab and moves the cursor: for every
\* value and 0 <= selectionStart <= selectionEnd <= |value|, newValue is
\* value[0..selectionStart) + TAB + value[selectionEnd..),
\* newCursorPosition is selectionStart + 1, just after the tab, and
\* |newValue| = |value| - (selectionEnd - selectionStart) + 1.
C14_InsertTab ==
    TextReturned("insertTabAtSelection") =>
        LET value == textCall.value
            st    == textCall.selectionStart
            en    == textCall.selectionEnd
            r     == textResult.value
        IN  /\ r.newValue = SubSeq(value, 1, st) \o <<TAB>>
                                \o SubSeq(value, en + 1, Len(value))
            /\ r.newCursorPosition = st + 1
            /\ r.newValue[r.newCursorPosition] = TAB
            /\ Len(r.newValue) = Len(value) - (en - st) + 1

C14_Witness ==
    /\ TextReturned("insertTabAtSelection")
    /\ textCall.value = <<"a", "b", "a">>
    /\ textCall.selectionStart = 1
    /\ textCall.selectionEnd = 2
    /\ textResult.value = [newValue |-> <<"a", TAB, "a">>, newCursorPosition |-> 2]

-----------------------------------------------------------------------------
(* C15 *)

\* C15: replaceInText with useRegex = false and wholeWord = false replaces
\* all occurrences: every non-overlapping occurrence of the term found by a
\* left-to-right scan (ignoring case unless caseSensitive) is replaced by the
\* replacement and all other characters are kept; with an empty term the
\* value is returned unchanged.
C15_ReplaceAll ==
    ( /\ TextReturned("replaceInText")
      /\ ~textCall.options.useRegex
      /\ ~textCall.options.wholeWord )
    => textResult.value =
          IF textCall.term = <<>> THEN textCall.value
          ELSE ReplacedLiterally(textCall.value, 0, textCall.term,
                                 textCall.replacement,
                                 textCall.options.caseSensitive)

-----------------------------------------------------------------------------
(* Vocabulary of the properties of the file system handlers *)

\* The step is a call of the handler fn.
Called(fn) == ops' # ops /\ lastCall'.fn = fn

\* A name that is empty or whitespace-only, holds a slash or a backslash, or
\* is "." or "..".
InvalidName(name) ==
    \/ \A k \in 1..Len(name) : name[k] \in {" ", "\t", NL}
    \/ \E k \in 1..Len(name) : name[k] \in {"/", "\\"}
    \/ name \in {<<".">>, <<".", ".">>}

-----------------------------------------------------------------------------
(* C16 *)

\* C16: name validation prevents invalid names: handleNewItem and
\* handleRenameNode called with a name that is empty or whitespace-only,
\* holds '/' or '\', or is '.' or '..' return null and false respectively
\* and leave the working file system, the saved file system and the open
\* tabs unchanged.
C16_NameValidation ==
    [][ /\ (Called("handleNewItem") /\ InvalidName(lastCall'.name))
           => /\ lastCall'.ret = NoNode
              /\ UNCHANGED <<fileSystem, savedFileSystem, openFiles>>
        /\ (Called("handleRenameNode") /\ InvalidName(lastCall'.name))
           => /\ lastCall'.ret = FALSE
              /\ UNCHANGED <<fileSystem, savedFileSystem, openFiles>>
      ]_vars

C16_Witness ==
    /\ lastCall.fn = "handleRenameNode"
    /\ lastCall.name = <<".">>
    /\ lastCall.ret = FALSE
    /\ fileSystem # initialFileSystem
    /\ openFiles # <<>>

-----------------------------------------------------------------------------
(* C17 *)

\* C17: whenever handleSaveFile(fileId) returns true, afterwards the saved
\* file system holds a file with that id whose content equals the working
\* file's content and the working file's isDirty is false, for every file,
\* one created after startup included; when the file does not exist or is
\* not dirty it returns false and changes neither tree.
C17_Save ==
    [][ Called("handleSaveFile") =>
          LET id == lastCall'.fileId IN
          IF lastCall'.ret
          THEN LET w  == findFileByIdRecursive(fileSystem', id)
                   sv == findFileByIdRecursive(savedFileSystem', id)
               IN  /\ w # NoNode
                   /\ sv # NoNode
                   /\ sv.content = w.content
                   /\ ~w.isDirty
          ELSE /\ \/ findFileByIdRecursive(fileSystem, id) = NoNode
                  \/ ~findFileByIdRecursive(fileSystem, id).isDirty
               /\ UNCHANGED <<fileSystem, savedFileSystem>>
      ]_vars

-----------------------------------------------------------------------------
(* C18 *)

\* C18: after resetToSaved, whatever edits, creations, renames, duplications,
\* moves, deletions and saves came before, the working file system equals
\* the saved file system and getChangedFiles, the Source Control list of
\* changed files, is empty.
C18_DiscardChanges ==
    lastCall.fn = "resetToSaved" =>
        /\ fileSystem = savedFileSystem
        /\ getChangedFiles(fileSystem, savedFileSystem) = <<>>

C18_Witness ==
    /\ lastCall.fn = "resetToSaved"
    /\ fileSystem = savedFileSystem
    /\ savedFileSystem # initialFileSystem
    /\ openFiles # <<>>
    /\ getChangedFiles(fileSystem, savedFileSystem) = <<>>

-----------------------------------------------------------------------------
(* C19 *)

\* The first k calls since the last command ran were all navigateHistory('up').
UpsOnly(k) == \A h \in 1..k : navTrace[h].call = "up"

\* The step is a call navigateHistory('down').
CalledDown ==
    /\ Len(navTrace') = Len(navTrace) + 1
    /\ navTrace'[Len(navTrace')].call = "down"

\* The step is executeCommand with a blank command line.
CalledBlank ==
    /\ Len(navTrace') = Len(navTrace) + 1
    /\ navTrace'[Len(navTrace')].call = "blank"

\* C19: after non-blank commands c1..cn have run, k consecutive
\* navigateHistory('up') calls (1 <= k <= n) return cn, cn-1, ..., cn-k+1; a
\* further 'up' at the oldest entry returns null and does not move; 'down'
\* returns the next newer command and, from the newest, returns '' and leaves
\* history mode; historyIndex always stays within [-1, n-1]; running a
\* command resets it to -1; a blank command line adds nothing.
C19_TerminalHistory ==
    /\ [](LET cnt == Len(commandHistory) IN
          /\ historyIndex \in -1..(cnt - 1)
          /\ \A k \in 1..Len(navTrace) :
                UpsOnly(k) =>
                   IF k <= cnt
                   THEN /\ navTrace[k].ret = StrRet(commandHistory[cnt - k + 1])
                        /\ navTrace[k].index = k - 1
                   ELSE /\ navTrace[k].ret = NullRet
                        /\ navTrace[k].index = cnt - 1)
    /\ [][ LET cnt == Len(commandHistory) IN
           /\ (CalledDown /\ historyIndex > 0)
              => /\ historyIndex' = historyIndex - 1
                 /\ navTrace'[Len(navTrace')].ret
                       = StrRet(commandHistory[cnt - historyIndex + 1])
           /\ (CalledDown /\ historyIndex = 0)
              => /\ historyIndex' = -1
                 /\ navTrace'[Len(navTrace')].ret = StrRet(<<>>)
           /\ commandHistory' # commandHistory
              => /\ historyIndex' = -1
                 /\ Len(commandHistory') = cnt + 1
                 /\ SubSeq(commandHistory', 1, cnt) = commandHistory
                 /\ \E k \in 1..Len(commandHistory'[cnt + 1]) :
                       commandHistory'[cnt + 1][k] \notin {" ", "\t", NL}
           /\ CalledBlank => UNCHANGED <<commandHistory, history, historyIndex>>
         ]_vars

C19_Witness ==
    /\ Len(commandHistory) = 3
    /\ commandHistory[1] # commandHistory[3]
    /\ Len(navTrace) = 4
    /\ UpsOnly(4)
    /\ navTrace[3].ret = StrRet(commandHistory[1])
    /\ navTrace[4].ret = NullRet
    /\ historyIndex = 2

-----------------------------------------------------------------------------
(* C20 *)

\* The fill loop has run to its end.
Filled == pc \in {"walk", "flushDel", "flushAdd", "render", "done"} /\ ~early

\* The number of common entries of the result.
CommonCount == Cardinality({k \in 1..Len(diff) : diff[k].type = "common"})

\* C20: after the bottom-up fill, for all 0 <= r <= m and 0 <= c <= n,
\* dp[r][c] is the length of a longest common subsequence of O[r..m) and
\* N[c..n) under exact line equality, with dp[m][c] = dp[r][n] = 0; hence
\* the number of Common lines of the general case is dp[0][0].
C20_LcsTable ==
    /\ Filled =>
          /\ DOMAIN dp = 0..m
          /\ \A r \in 0..m :
                /\ DOMAIN dp[r] = 0..n
                /\ dp[r][n] = 0
                /\ \A c \in 0..n :
                      /\ dp[m][c] = 0
                      /\ dp[r][c] = LCSLen(SubSeq(oldLines, r + 1, m),
                                           SubSeq(newLines, c + 1, n))
    /\ (Returned /\ ~early) => CommonCount = dp[0][0]

C20_Witness ==
    /\ pc = "done"
    /\ ~early
    /\ m >= 3 /\ n >= 3
    /\ dp[0][0] = 2
    /\ dp[1][1] = 1
    /\ CommonCount = 2

====
